---- MODULE Spec2Model ----
(***************************************************************************)
(* Facebook Ads MCP server: the tool handlers of both auth paths           *)
(* (src/src/server.ts, src/src/api-key-handler.ts) composed with the       *)
(* result cache (apify-cache) and the global ApifySemaphore.               *)
(*                                                                         *)
(* Every tool request is an independent task.  Each action below is one    *)
(* step of a handler between two suspension points (await): the shared     *)
(* state (cache, semaphore) is read or written once per action.            *)
(***************************************************************************)
EXTENDS Naturals, Integers, Sequences, FiniteSets, TLC

\* ------------------------------------------------------------- bounds
\* Capacity of the semaphore in the model (32 in production).
MaxSlots == 1
\* Number of tool requests in the cache scenario.
NumCacheReq == 2
\* Number of tool requests in the unreachable-store scenario.
NumKvReq == 1
\* The admission scenario has one request more than there are slots.
NumReq == MaxSlots + 1
\* Last instant of the clock in the scenarios where time passes.
MaxTime == 3
\* Capacity of the MCP server cache in the model (1000 in production).
MAX_CACHED_SERVERS == 2

\* ------------------------------------------------------------- constants
\* Advisory wait time reported with a denied slot.
EstimatedWait == 60
\* resultsLimit used when the caller gives no limit (params.x || 10).
DefaultLimit == 10
\* resultsLimit of checkActivityPulse.
PulseLimit == 1

\* Staleness threshold of cleanupStale, in clock ticks.
StaleAge == 1
\* actualCost when the Actor returned no ads (rawAds.length > 0 ? FLAT_COST : 1).
ZeroResultCost == 1

ACTOR_ID == "apify/facebook-ads-scraper"

Max(a, b) == IF a > b THEN a ELSE b
Reqs == 1..Max(Max(NumReq, NumCacheReq), NumKvReq)
Paths == {"oauth", "apikey"}
Tools == {"analyzeCompetitorStrategy", "fetchCreativeGallery", "checkActivityPulse"}
NoUser == "none"
Users == {"u1", "u2"}
\* A URL is its scheme, an optional prefix of the host, the rest of the host
\* and the path as the sequence of its parts.
ValidUrl == [scheme |-> "https", www |-> "www.", host |-> "facebook.com",
             path |-> <<"/", "Nike">>]
BadUrl == [scheme |-> "http", www |-> "", host |-> "example.com",
           path |-> <<"/", "Nike">>]
NoUrl == [scheme |-> "none", www |-> "", host |-> "none", path |-> <<>>]
Urls == {ValidUrl, BadUrl}
\* URLs around the edges of the pattern.
EntryUrls ==
    {ValidUrl, BadUrl,
     [ValidUrl EXCEPT !.www = ""],
     [ValidUrl EXCEPT !.www = "wwwx"],
     [ValidUrl EXCEPT !.scheme = "http"],
     [ValidUrl EXCEPT !.host = "facebookxcom"],
     [ValidUrl EXCEPT !.path = <<"/">>],
     [ValidUrl EXCEPT !.path = <<>>]}
\* 0 stands for an absent (undefined) or zero limit.
Limits == {0, 5, 10}
\* Number of ads the Actor returns on success.
AdCounts == {0, 1}
\* Text the Actor's items carry (ad body, page name): plain or with HTML tags.
PlainText == "Sale"
MarkupText == "<b>Sale</b>"
Bodies == {PlainText, MarkupText}

VARIABLES
    pc,          \* position of each request in its handler
    args,        \* path, tool, userId and params of each request
    slot,        \* the handler's local `slot`
    cacheKey,    \* the handler's local `cacheKey`
    cached,      \* the handler's local `cached`
    finalResult, \* the handler's local `finalResult` / `secureResult`
    response,    \* what the handler returned
    ops,         \* history: the core operations each request performed
    occupancy,   \* semaphore: count of in-flight slots
    activeSlots, \* semaphore: holders with a registered slot
    cache,       \* APIFY_CACHE: key -> payload
    consumed,    \* tokens each request consumed through consumeTokensWithRetry
    now,         \* semaphore: the clock the slot ages are measured against
    acquiredAt,  \* semaphore: acquisition timestamps of each holder's registered slots
    semLog,      \* history: holders ever granted, holders reclaimed, last direct call
    http,        \* the last HTTP request the worker's fetch handler served, and its response
    rawAds,      \* the handler's local `rawAds`: what the Actor returned
    serverCache, \* LRUCache.cache: the entries in insertion order (the order of Map.entries())
    lruLog,      \* history: the last direct call of the LRUCache
    grantedAt    \* history: the time at which each request was granted its slot

vars == <<pc, args, slot, cacheKey, cached, finalResult, response, ops,
          occupancy, activeSlots, cache, consumed, now, acquiredAt, semLog, http, rawAds,
          serverCache, lruLog, grantedAt>>

\* ------------------------------------------------------------- values
NoArgs == [path |-> "none", tool |-> "none", userId |-> NoUser,
           url |-> NoUrl, limit |-> 0, sufficient |-> TRUE]

\* `null` payload: the value of `cached` on a miss.
NoPayload == [tool |-> "none", url |-> NoUrl, resultsLimit |-> 0,
              ads |-> 0, body |-> "none", secure |-> FALSE]

\* No Actor run has returned.
NoItems == [ads |-> 0, body |-> "none"]

\* `slot = null`
NoSlot == [isNull |-> TRUE, acquired |-> FALSE, currentSlots |-> 0,
           maxSlots |-> 0, estimatedWaitTime |-> 0]

NoKey == [actorId |-> "none", url |-> NoUrl, resultsLimit |-> 0,
          onlyTotal |-> FALSE, isDetailsPerAd |-> FALSE]

NoResponse == [returned |-> FALSE, isError |-> FALSE, text |-> "none",
               payload |-> NoPayload, currentSlots |-> 0, maxSlots |-> 0,
               wait |-> 0]

Success(p) == [returned |-> TRUE, isError |-> FALSE, text |-> "result",
               payload |-> p, currentSlots |-> 0, maxSlots |-> 0, wait |-> 0]

\* A catch block that forgets the isError flag.
ErrorResultUnflagged(msg) ==
    [returned |-> TRUE, isError |-> FALSE, text |-> msg, payload |-> NoPayload,
     currentSlots |-> 0, maxSlots |-> 0, wait |-> 0]

\* catch (error) { return { isError: true, text: `Error: ${errorMessage}` } }
ErrorResult(msg) == [returned |-> TRUE, isError |-> TRUE, text |-> msg,
                     payload |-> NoPayload, currentSlots |-> 0,
                     maxSlots |-> 0, wait |-> 0]

\* The message of the fast-fail check described in the fix report.
LimitReached(s) == [returned |-> TRUE, isError |-> TRUE,
                    text |-> "Apify concurrency limit reached",
                    payload |-> NoPayload, currentSlots |-> s.currentSlots,
                    maxSlots |-> s.maxSlots, wait |-> s.estimatedWaitTime]

\* No direct call of the semaphore has been made.
NoCall == [op |-> "none", holder |-> NoUser, acquired |-> FALSE, found |-> FALSE,
           threw |-> FALSE, before |-> 0]

NoSemLog == [granted |-> {}, released |-> {}, reclaimed |-> {}, last |-> NoCall]

\* No direct call of the LRUCache has been made.
NoLruCall == [op |-> "none", key |-> 0, found |-> FALSE, sizeBefore |-> 0,
              evicted |-> {}, oldestBefore |-> 0, firstBefore |-> 0]

\* The request has not been granted a slot.
NotGranted == -1

\* No HTTP request has been served.
NoHttp == [pathname |-> "none", authHeader |-> <<>>, jsonrpc |-> "none",
           method |-> "none", status |-> 0, servedBy |-> "none", text |-> "none",
           server |-> NoUser]

Has(r, op) == \E i \in 1..Len(ops[r]) : ops[r][i] = op
Count(r, op) == Cardinality({i \in 1..Len(ops[r]) : ops[r][i] = op})

\* ------------------------------------------------------------- pure parts
\* A validation that lets every URL through.
facebookUrlPatternAny(url) == TRUE

\* const facebookUrlPattern = /^https:\/\/(www\.)?facebook\.com\/.+$/
facebookUrlPattern(url) ==
    /\ url.scheme = "https"
    /\ url.www \in {"", "www."}
    /\ url.host = "facebook.com"
    /\ Len(url.path) >= 2 /\ url.path[1] = "/"

\* const actorInput = { startUrls, resultsLimit, onlyTotal, isDetailsPerAd, ... }
actorInput(tool, url, limit) ==
    IF tool = "checkActivityPulse"
    THEN [url |-> url, resultsLimit |-> PulseLimit,
          onlyTotal |-> TRUE, isDetailsPerAd |-> FALSE]
    ELSE [url |-> url,
          resultsLimit |-> IF limit = 0 THEN DefaultLimit ELSE limit,
          onlyTotal |-> FALSE, isDetailsPerAd |-> TRUE]

\* hashApifyInput({ actorId, input }): a fingerprint of exactly the actor id
\* and the actor input (collisions of the hash are not modelled).
hashApifyInput(actorId, input) ==
    [actorId |-> actorId, url |-> input.url,
     resultsLimit |-> input.resultsLimit, onlyTotal |-> input.onlyTotal,
     isDetailsPerAd |-> input.isDetailsPerAd]

\* getCachedApifyResult: absent entry or unreachable store give null.
getCachedApifyResult(kv, key, backendOk) ==
    IF backendOk /\ key \in DOMAIN kv THEN kv[key] ELSE NoPayload

\* setCachedApifyResult: whole-entry overwrite; a failed write is dropped.
setCachedApifyResult(kv, key, payload, backendOk) ==
    IF backendOk
    THEN [k \in DOMAIN kv \cup {key} |-> IF k = key THEN payload ELSE kv[k]]
    ELSE kv

\* Off-by-one capacity check (occupancy <= capacity).
acquireSlotOffByOne(occ) ==
    IF occ <= MaxSlots
    THEN [isNull |-> FALSE, acquired |-> TRUE, currentSlots |-> occ + 1,
          maxSlots |-> MaxSlots, estimatedWaitTime |-> 0]
    ELSE [isNull |-> FALSE, acquired |-> FALSE, currentSlots |-> occ,
          maxSlots |-> MaxSlots, estimatedWaitTime |-> EstimatedWait]

\* ApifySemaphore.acquireSlot: the result record.
acquireSlot(occ) ==
    IF occ < MaxSlots
    THEN [isNull |-> FALSE, acquired |-> TRUE, currentSlots |-> occ + 1,
          maxSlots |-> MaxSlots, estimatedWaitTime |-> 0]
    ELSE [isNull |-> FALSE, acquired |-> FALSE, currentSlots |-> occ,
          maxSlots |-> MaxSlots, estimatedWaitTime |-> EstimatedWait]

\* const FLAT_COST = 5 | 3 | 1
FLAT_COST(tool) ==
    IF tool = "analyzeCompetitorStrategy" THEN 5
    ELSE IF tool = "fetchCreativeGallery" THEN 3
    ELSE 1

\* const actualCost = rawAds.length > 0 ? FLAT_COST : 1   (FLAT_COST for the pulse)
actualCost(tool, ads) ==
    IF tool = "checkActivityPulse" THEN FLAT_COST(tool)
    ELSE IF ads > 0 THEN FLAT_COST(tool) ELSE ZeroResultCost

\* sanitizeOutput(text, { removeHtml: true, ... }): HTML tags are removed.
sanitizeOutput(text) == IF text = MarkupText THEN PlainText ELSE text

\* The payload a tool builds from the Actor's items; the API-key executors
\* pass it through STEP 4.5 (sanitizeOutput, redactPII), the OAuth handlers
\* do not.
buildResult(a, ads, body) ==
    LET inp == actorInput(a.tool, a.url, a.limit)
    IN [tool |-> a.tool, url |-> inp.url, resultsLimit |-> inp.resultsLimit,
        ads |-> ads,
        body |-> IF a.path = "apikey" THEN sanitizeOutput(body) ELSE body,
        secure |-> (a.path = "apikey")]

\* ------------------------------------------------------------- Init
\* No request has arrived; the semaphore is empty; the KV store holds `kv`.
InitWith(kv) ==
    /\ pc = [r \in Reqs |-> "idle"]
    /\ args = [r \in Reqs |-> NoArgs]
    /\ slot = [r \in Reqs |-> NoSlot]
    /\ cacheKey = [r \in Reqs |-> NoKey]
    /\ cached = [r \in Reqs |-> NoPayload]
    /\ finalResult = [r \in Reqs |-> NoPayload]
    /\ response = [r \in Reqs |-> NoResponse]
    /\ ops = [r \in Reqs |-> <<>>]
    /\ occupancy = 0
    /\ activeSlots = {}
    /\ cache = kv
    /\ consumed = [r \in Reqs |-> 0]
    /\ now = 0
    /\ acquiredAt = [h \in Users |-> <<>>]
    /\ semLog = NoSemLog
    /\ http = NoHttp
    /\ rawAds = [r \in Reqs |-> NoItems]
    /\ serverCache = <<>>
    /\ lruLog = NoLruCall
    /\ grantedAt = [r \in Reqs |-> NotGranted]

EmptyCache == [k \in {} |-> NoPayload]

Init == InitWith(EmptyCache)

\* ------------------------------------------------------------- scenarios
\* What the environment may do in a run: which requests arrive with which
\* arguments, and which outcomes the external collaborators may produce.
\* Concurrent requests of several callers, all for the same page.
AdmissionScenario ==
    [reqs |-> 1..NumReq,
     tools |-> {"analyzeCompetitorStrategy"},
     oauthUsers |-> {"u1"}, users |-> Users, urls |-> {ValidUrl}, limits |-> {0},
     oauthBalance |-> {TRUE},
     balance |-> {TRUE}, kv |-> {TRUE}, ads |-> {1}, bodies |-> {PlainText},
     failures |-> {"Actor run failed", "Actor run timed out"}]

\* Two requests with every tool and limit; the KV store may be unreachable.
CacheScenario ==
    [reqs |-> 1..NumCacheReq,
     tools |-> Tools,
     oauthUsers |-> {"u1", NoUser}, users |-> {"u1"}, urls |-> Urls, limits |-> Limits,
     oauthBalance |-> {TRUE},
     balance |-> BOOLEAN, kv |-> BOOLEAN, ads |-> AdCounts, bodies |-> {PlainText},
     failures |-> {"Actor run timed out"}]

\* One request at a time against a store that may be unreachable; the store
\* is empty or holds the entry an earlier analyzeCompetitorStrategy request
\* wrote for the same page within the TTL.
KvScenario ==
    [reqs |-> 1..NumKvReq,
     tools |-> Tools,
     oauthUsers |-> {"u1"}, users |-> {"u1"}, urls |-> {ValidUrl}, limits |-> {0, 5},
     oauthBalance |-> {TRUE},
     balance |-> {TRUE}, kv |-> BOOLEAN, ads |-> AdCounts, bodies |-> {PlainText},
     failures |-> {"Actor run failed", "Actor run timed out"}]

\* One request at a time with every shape of URL and either balance.
EntryScenario ==
    [reqs |-> 1..NumKvReq,
     tools |-> Tools,
     oauthUsers |-> {"u1", NoUser}, users |-> {"u1"}, urls |-> EntryUrls, limits |-> {0},
     oauthBalance |-> BOOLEAN,
     balance |-> BOOLEAN, kv |-> {TRUE}, ads |-> AdCounts, bodies |-> {PlainText},
     failures |-> {"Actor run timed out"}]

\* One request at a time, of either auth path, whose Actor run returns plain
\* text or text with HTML tags.
ParityScenario ==
    [reqs |-> 1..NumKvReq,
     tools |-> Tools,
     oauthUsers |-> {"u1"}, users |-> {"u1"}, urls |-> {ValidUrl}, limits |-> {0, 5},
     oauthBalance |-> {TRUE},
     balance |-> {TRUE}, kv |-> {TRUE}, ads |-> AdCounts, bodies |-> Bodies,
     failures |-> {"Actor run failed"}]

\* Concurrent requests of one user of either auth path, some of which fail
\* validation or the balance check.
ExitScenario ==
    [reqs |-> 1..NumReq,
     tools |-> {"fetchCreativeGallery"},
     oauthUsers |-> {"u1", NoUser}, users |-> {"u1"}, urls |-> Urls, limits |-> {0},
     oauthBalance |-> {TRUE},
     balance |-> BOOLEAN, kv |-> {TRUE}, ads |-> {1}, bodies |-> {PlainText},
     failures |-> {"Actor run failed"}]

\* Concurrent requests of one user, while time passes and the sweep runs.
HolderScenario ==
    [reqs |-> 1..NumReq,
     tools |-> {"checkActivityPulse"},
     oauthUsers |-> {"u1"}, users |-> {"u1"}, urls |-> {ValidUrl}, limits |-> {0},
     oauthBalance |-> {TRUE},
     balance |-> {TRUE}, kv |-> {TRUE}, ads |-> {1}, bodies |-> {PlainText},
     failures |-> {"Actor run timed out"}]

EarlierRequest == [path |-> "oauth", tool |-> "analyzeCompetitorStrategy",
                   userId |-> "u2", url |-> ValidUrl, limit |-> 0, sufficient |-> TRUE]

KvInitialCaches ==
    {EmptyCache,
     setCachedApifyResult(EmptyCache,
        hashApifyInput(ACTOR_ID, actorInput(EarlierRequest.tool, EarlierRequest.url,
                                            EarlierRequest.limit)),
        buildResult(EarlierRequest, 1, PlainText), TRUE)}

InitKv == \E kv \in KvInitialCaches : InitWith(kv)

\* ------------------------------------------------------------- handler steps
\* A request arrives: requests are numbered in order of arrival.
Started(r) == pc[r] # "idle"

\* server.ts, try block up to the cache check: userId, then URL validation.
StartOAuth(r, sc) ==
    /\ r \in sc.reqs
    /\ pc[r] = "idle"
    /\ \A q \in Reqs : q < r => Started(q)
    /\ \E tool \in sc.tools, user \in sc.oauthUsers, url \in sc.urls,
          limit \in sc.limits, sufficient \in sc.oauthBalance :
        /\ (tool = "checkActivityPulse" => limit = 0)
        /\ (user = NoUser => url = ValidUrl /\ sufficient)
        /\ (~facebookUrlPattern(url) => sufficient)
        /\ args' = [args EXCEPT ![r] = [path |-> "oauth", tool |-> tool,
                                        userId |-> user, url |-> url, limit |-> limit,
                                        sufficient |-> sufficient]]
        /\ IF user = NoUser
           THEN /\ response' = [response EXCEPT ![r] = ErrorResult("User ID not found")]
                /\ pc' = [pc EXCEPT ![r] = "finally"]
           ELSE IF ~facebookUrlPattern(url)
           THEN /\ response' = [response EXCEPT ![r] = ErrorResult("Invalid Facebook Page URL")]
                /\ pc' = [pc EXCEPT ![r] = "finally"]
           ELSE /\ response' = response
                /\ pc' = [pc EXCEPT ![r] = "lookup"]
    /\ UNCHANGED <<slot, cacheKey, cached, finalResult, ops, occupancy, activeSlots, cache,
                   consumed, now, acquiredAt, semLog>>
    /\ UNCHANGED <<http, rawAds, serverCache, lruLog, grantedAt>>

\* api-key-handler.ts, try block up to the cache check: URL validation, then
\* checkBalance (its outcome is the ledger's, an input here).
StartApiKey(r, sc) ==
    /\ r \in sc.reqs
    /\ pc[r] = "idle"
    /\ \A q \in Reqs : q < r => Started(q)
    /\ \E tool \in sc.tools, user \in sc.users, url \in sc.urls, limit \in sc.limits,
          sufficient \in sc.balance :
        /\ (tool = "checkActivityPulse" => limit = 0)
        /\ (~facebookUrlPattern(url) => sufficient)
        /\ args' = [args EXCEPT ![r] = [path |-> "apikey", tool |-> tool,
                                        userId |-> user, url |-> url, limit |-> limit,
                                        sufficient |-> sufficient]]
        /\ IF ~facebookUrlPattern(url)
           THEN /\ response' = [response EXCEPT ![r] = ErrorResult("Invalid Facebook Page URL")]
                /\ pc' = [pc EXCEPT ![r] = "finally"]
           ELSE IF ~sufficient
           THEN /\ response' = [response EXCEPT ![r] = ErrorResult("Insufficient tokens")]
                /\ pc' = [pc EXCEPT ![r] = "finally"]
           ELSE /\ response' = response
                /\ pc' = [pc EXCEPT ![r] = "lookup"]
    /\ UNCHANGED <<slot, cacheKey, cached, finalResult, ops, occupancy, activeSlots, cache,
                   consumed, now, acquiredAt, semLog>>
    /\ UNCHANGED <<http, rawAds, serverCache, lruLog, grantedAt>>

\* A handler that ignores the cached value and always asks for a slot.
AfterLookupIgnoresHit(c) == "acquire"

\* A handler that treats an empty lookup as a failure of the request.
AfterLookupAbortsOnNull(c) == IF c # NoPayload THEN "hit" ELSE "finally"

\* Where the handler goes after the cache lookup returned `c`.
AfterLookup(c) == IF c # NoPayload THEN "hit" ELSE "acquire"

\* STEP 2 / 3.5: cacheKey = hashApifyInput(...); cached = getCachedApifyResult(...)
CacheLookup(r, sc) ==
    /\ pc[r] = "lookup"
    /\ \E backendOk \in sc.kv :
        LET key == hashApifyInput(ACTOR_ID, actorInput(args[r].tool, args[r].url, args[r].limit))
            c == getCachedApifyResult(cache, key, backendOk)
        IN /\ cacheKey' = [cacheKey EXCEPT ![r] = key]
           /\ cached' = [cached EXCEPT ![r] = c]
           /\ ops' = [ops EXCEPT ![r] = Append(@,
                        IF ~backendOk THEN "lookup:unavailable"
                        ELSE IF c # NoPayload THEN "lookup:hit" ELSE "lookup:miss")]
           /\ pc' = [pc EXCEPT ![r] = AfterLookup(c)]
    /\ UNCHANGED <<args, slot, finalResult, response, occupancy, activeSlots, cache,
                   consumed, now, acquiredAt, semLog>>
    /\ UNCHANGED <<http, rawAds, serverCache, lruLog, grantedAt>>

\* Cache hit: the API-key path consumes FLAT_COST (consumeTokensWithRetry with
\* FLAT_COST); the OAuth path only logs the usage (logToolUsage has no cost).
consumedOnHit(a, ledgerOk) ==
    IF a.path = "apikey" /\ ledgerOk THEN FLAT_COST(a.tool) ELSE 0

\* if (cached) { await logToolUsage / consumeTokensWithRetry; return cached }
CacheHit(r) ==
    /\ pc[r] = "hit"
    /\ \E ledgerOk \in BOOLEAN :
        /\ ops' = [ops EXCEPT ![r] = Append(@, IF ledgerOk THEN "ledger:hit" ELSE "ledger:failed")]
        /\ response' = [response EXCEPT ![r] =
                          IF ledgerOk THEN Success(cached[r]) ELSE ErrorResult("Ledger error")]
        /\ consumed' = [consumed EXCEPT ![r] = consumedOnHit(args[r], ledgerOk)]
    /\ pc' = [pc EXCEPT ![r] = "finally"]
    /\ UNCHANGED <<args, slot, cacheKey, cached, finalResult, occupancy, activeSlots, cache,
                   now, acquiredAt, semLog>>
    /\ UNCHANGED <<http, rawAds, serverCache, lruLog, grantedAt>>

\* ApifySemaphore.acquireSlot(holder): the effect on the semaphore.  A granted
\* call creates the holder's slot, stamped with the current time.
occupancyAfterAcquireCountsDenied(occ, s) == occ + 1

occupancyAfterAcquire(occ, s) == IF s.acquired THEN occ + 1 ELSE occ

SemAcquire(h) ==
    LET s == acquireSlot(occupancy)
    IN /\ occupancy' = occupancyAfterAcquire(occupancy, s)
       /\ activeSlots' = IF s.acquired THEN activeSlots \cup {h} ELSE activeSlots
       /\ acquiredAt' = IF s.acquired THEN [acquiredAt EXCEPT ![h] = Append(@, now)]
                         ELSE acquiredAt

\* History: the holders that were ever granted a slot.
grantedAfter(h) ==
    IF acquireSlot(occupancy).acquired THEN semLog.granted \cup {h} ELSE semLog.granted

\* A handler that calls acquireSlot again after a denial.
AfterAcquireRetries(s) == IF s.acquired THEN "invoke" ELSE "acquire"

\* Where the handler goes after acquireSlot returned `s`: the next statement
\* in both files is runActorSync, whatever slot.acquired is.
AfterAcquire(s) == "invoke"

\* STEP 3.7: slot = await semaphore.acquireSlot(userId, ACTOR_ID)
Acquire(r) ==
    /\ pc[r] = "acquire"
    /\ LET s == acquireSlot(occupancy)
       IN /\ slot' = [slot EXCEPT ![r] = s]
          /\ SemAcquire(args[r].userId)
          /\ semLog' = [semLog EXCEPT !.granted = grantedAfter(args[r].userId)]
          /\ ops' = [ops EXCEPT ![r] = Append(@,
                       IF s.acquired THEN "acquire:granted" ELSE "acquire:denied")]
          /\ grantedAt' = IF s.acquired THEN [grantedAt EXCEPT ![r] = now] ELSE grantedAt
          /\ pc' = [pc EXCEPT ![r] = AfterAcquire(s)]
    /\ UNCHANGED <<args, cacheKey, cached, finalResult, response, cache, consumed, now>>
    /\ UNCHANGED <<http, rawAds, serverCache, lruLog>>

\* The request is inside apifyClient.runActorSync.
Executing(r) == pc[r] = "invoke"

\* AI synthesis (analyzeCompetitorStrategy) and STEP 4.5 (API-key path) can throw.
CanThrowInPost(a) == a.tool = "analyzeCompetitorStrategy" \/ a.path = "apikey"

\* STEP 4: results = await apifyClient.runActorSync(ACTOR_ID, actorInput, TIMEOUT),
\* then the tool builds its result (AI synthesis, STEP 4.5 sanitization).
RunActorSync(r, sc) ==
    /\ pc[r] = "invoke"
    /\ \/ \E ads \in sc.ads, body \in sc.bodies :
            /\ (ads = 0 => body = PlainText)
            /\ rawAds' = [rawAds EXCEPT ![r] = [ads |-> ads, body |-> body]]
            /\ finalResult' = [finalResult EXCEPT ![r] = buildResult(args[r], ads, body)]
            /\ ops' = [ops EXCEPT ![r] = Append(@, "invoke:ok")]
            /\ pc' = [pc EXCEPT ![r] = "store"]
            /\ response' = response
       \/ \E failure \in sc.failures :
            /\ rawAds' = rawAds
            /\ finalResult' = finalResult
            /\ ops' = [ops EXCEPT ![r] = Append(@, "invoke:failed")]
            /\ pc' = [pc EXCEPT ![r] = "finally"]
            /\ response' = [response EXCEPT ![r] = ErrorResult(failure)]
       \/ /\ CanThrowInPost(args[r])
          /\ rawAds' = rawAds
          /\ finalResult' = finalResult
          /\ ops' = [ops EXCEPT ![r] = ops[r] \o <<"invoke:ok", "post:failed">>]
          /\ pc' = [pc EXCEPT ![r] = "finally"]
          /\ response' = [response EXCEPT ![r] = ErrorResult("Unexpected error")]
    /\ UNCHANGED <<args, slot, cacheKey, cached, occupancy, activeSlots, cache,
                   consumed, now, acquiredAt, semLog>>
    /\ UNCHANGED <<http, serverCache, lruLog, grantedAt>>

\* A handler that surfaces a failed cache write to the caller.
AfterStoreSurfacesFailure(stored, ledgerOk, fresh) ==
    IF ~stored THEN ErrorResult("Cache write failed")
    ELSE IF ledgerOk THEN Success(fresh) ELSE ErrorResult("Ledger error")

\* What the handler does after setCachedApifyResult returned: it goes on to
\* the usage ledger and returns the fresh result (a ledger error is caught).
AfterStore(stored, ledgerOk, fresh) ==
    IF ledgerOk THEN Success(fresh) ELSE ErrorResult("Ledger error")

\* Fresh result: the API-key path consumes actualCost; the OAuth path only logs.
consumedOnFresh(a, ads, ledgerOk) ==
    IF a.path = "apikey" /\ ledgerOk THEN actualCost(a.tool, ads) ELSE 0

\* await setCachedApifyResult(...); await logToolUsage / consumeTokensWithRetry;
\* return finalResult
CacheStore(r, sc) ==
    /\ pc[r] = "store"
    /\ \E backendOk \in sc.kv, ledgerOk \in BOOLEAN :
        /\ cache' = setCachedApifyResult(cache, cacheKey[r], finalResult[r], backendOk)
        /\ ops' = [ops EXCEPT ![r] = ops[r] \o
                     <<IF backendOk THEN "store:ok" ELSE "store:failed",
                       IF ledgerOk THEN "ledger:fresh" ELSE "ledger:failed">>]
        /\ response' = [response EXCEPT ![r] = AfterStore(backendOk, ledgerOk, finalResult[r])]
        /\ consumed' = [consumed EXCEPT ![r] = consumedOnFresh(args[r], finalResult[r].ads, ledgerOk)]
    /\ pc' = [pc EXCEPT ![r] = "finally"]
    /\ UNCHANGED <<args, slot, cacheKey, cached, finalResult, occupancy, activeSlots,
                   now, acquiredAt, semLog>>
    /\ UNCHANGED <<http, rawAds, serverCache, lruLog, grantedAt>>

\* A handler without the release in its finally block.
MustReleaseNever(s, userId) == FALSE

\* A finally block that releases whatever the request did.
MustReleaseAlways(s, userId) == TRUE

\* finally { if (slot && slot.acquired && userId) ... }
MustRelease(s, userId) == ~s.isNull /\ s.acquired /\ userId # NoUser

\* A release that decrements without looking for the holder's slot.
releaseOccupancyUnchecked(occ, slots, userId) == occ - 1

\* ApifySemaphore.releaseSlot(userId): idempotent.
releaseOccupancy(occ, slots, userId) == IF userId \in slots THEN occ - 1 ELSE occ

RemoveAt(seq, i) == SubSeq(seq, 1, i - 1) \o SubSeq(seq, i + 1, Len(seq))

\* ApifySemaphore.releaseSlot(holder): the effect on the semaphore.  One slot
\* of the holder is removed, if it has any.
SemRelease(h) ==
    /\ occupancy' = releaseOccupancy(occupancy, activeSlots, h)
    /\ IF h \in activeSlots
       THEN /\ \E i \in 1..Len(acquiredAt[h]) :
                 acquiredAt' = [acquiredAt EXCEPT ![h] = RemoveAt(@, i)]
            /\ activeSlots' = IF Len(acquiredAt[h]) = 1 THEN activeSlots \ {h}
                              ELSE activeSlots
       ELSE UNCHANGED <<activeSlots, acquiredAt>>

Finally(r) ==
    /\ pc[r] = "finally"
    /\ IF MustRelease(slot[r], args[r].userId)
       THEN /\ SemRelease(args[r].userId)
            /\ semLog' = [semLog EXCEPT !.released = @ \cup {args[r].userId}]
            /\ ops' = [ops EXCEPT ![r] = Append(@, "release")]
       ELSE UNCHANGED <<occupancy, activeSlots, acquiredAt, semLog, ops>>
    /\ pc' = [pc EXCEPT ![r] = "done"]
    /\ UNCHANGED <<args, slot, cacheKey, cached, finalResult, response, cache, consumed, now>>
    /\ UNCHANGED <<http, rawAds, serverCache, lruLog, grantedAt>>

Step(sc) ==
    \E r \in Reqs :
        \/ StartOAuth(r, sc)
        \/ StartApiKey(r, sc)
        \/ CacheLookup(r, sc)
        \/ CacheHit(r)
        \/ Acquire(r)
        \/ RunActorSync(r, sc)
        \/ CacheStore(r, sc)
        \/ Finally(r)

\* ------------------------------------------------------------- the semaphore alone
\* The ApifySemaphore object under arbitrary calls of its three operations by
\* any holder, while time passes.
AcquireSlot(h) ==
    /\ SemAcquire(h)
    /\ semLog' = [semLog EXCEPT !.granted = grantedAfter(h),
                    !.last = [op |-> "acquire", holder |-> h,
                              acquired |-> acquireSlot(occupancy).acquired,
                              found |-> h \in activeSlots, threw |-> FALSE,
                              before |-> occupancy]]
    /\ UNCHANGED <<pc, args, slot, cacheKey, cached, finalResult, response, ops, cache,
                   consumed, now>>
    /\ UNCHANGED <<http, rawAds, serverCache, lruLog, grantedAt>>

ReleaseSlot(h) ==
    /\ SemRelease(h)
    /\ semLog' = [semLog EXCEPT !.released = @ \cup {h},
                                !.last = [op |-> "release", holder |-> h,
                                          acquired |-> FALSE, found |-> h \in activeSlots,
                                          threw |-> FALSE, before |-> occupancy]]
    /\ UNCHANGED <<pc, args, slot, cacheKey, cached, finalResult, response, ops, cache,
                   consumed, now>>
    /\ UNCHANGED <<http, rawAds, serverCache, lruLog, grantedAt>>

\* A sweep whose threshold no slot ever reaches.
StaleSlotsNever ==
    {h \in activeSlots : \E i \in 1..Len(acquiredAt[h]) :
                             now - acquiredAt[h][i] > StaleAge + MaxTime + 1}

\* The holders with a slot older than the staleness threshold.
StaleSlots ==
    {h \in activeSlots : \E i \in 1..Len(acquiredAt[h]) :
                             now - acquiredAt[h][i] > StaleAge}

\* A slot the sweep keeps.
NotStale(t) == now - t <= StaleAge

\* A sweep that decrements twice for each slot it removes.
occupancyAfterCleanupTwice(occ, before, after) == occ - 2 * (Len(before) - Len(after))

\* The sweep decrements occupancy once for each slot it removes from a holder.
occupancyAfterCleanup(occ, before, after) == occ - (Len(before) - Len(after))

RECURSIVE occupancyAfterSweep(_, _)
occupancyAfterSweep(occ, holders) ==
    IF holders = {} THEN occ
    ELSE LET h == CHOOSE x \in holders : TRUE
         IN occupancyAfterSweep(
                occupancyAfterCleanup(occ, acquiredAt[h], SelectSeq(acquiredAt[h], NotStale)),
                holders \ {h})

\* cleanupStale(maxAge): every stale slot is removed and occupancy decremented.
CleanupStale ==
    /\ StaleSlots # {}
    /\ occupancy' = occupancyAfterSweep(occupancy, Users)
    /\ acquiredAt' = [h \in Users |-> SelectSeq(acquiredAt[h], NotStale)]
    /\ activeSlots' = {h \in activeSlots : SelectSeq(acquiredAt[h], NotStale) # <<>>}
    /\ semLog' = [semLog EXCEPT !.reclaimed = @ \cup StaleSlots]
    /\ UNCHANGED <<pc, args, slot, cacheKey, cached, finalResult, response, ops, cache,
                   consumed, now>>
    /\ UNCHANGED <<http, rawAds, serverCache, lruLog, grantedAt>>

\* Time passes.
Tick ==
    /\ now < MaxTime
    /\ now' = now + 1
    /\ UNCHANGED <<pc, args, slot, cacheKey, cached, finalResult, response, ops, cache,
                   consumed, occupancy, activeSlots, acquiredAt, semLog>>
    /\ UNCHANGED <<http, rawAds, serverCache, lruLog, grantedAt>>

NextSem ==
    \/ \E h \in Users : AcquireSlot(h)
    \/ \E h \in Users : ReleaseSlot(h)
    \/ CleanupStale
    \/ Tick

SpecSem == Init /\ [][NextSem]_vars

\* The sweep runs on a timer or at the start of an Acquire: a sweep that has
\* something to reclaim is not postponed forever.
SpecSemLive == SpecSem /\ WF_vars(CleanupStale)

\* ------------------------------------------------------------- the MCP server cache
\* api-key-handler.ts: class LRUCache.  The keys are user ids; an entry is the
\* key and its lastAccessed time (the value is the server built for the key).
LruKeys == 1..(MAX_CACHED_SERVERS + 1)

\* this.cache.has(key)
lruHas(c, k) == \E i \in 1..Len(c) : c[i].key = k

\* The keys of the cache.
lruKeySet(c) == {c[i].key : i \in 1..Len(c)}

\* The smallest lastAccessed of a cache that is not empty.
lruOldestTime(c) ==
    CHOOSE t \in {c[i].lastAccessed : i \in 1..Len(c)} :
        \A i \in 1..Len(c) : t <= c[i].lastAccessed

\* this.cache.set(key, { value, lastAccessed: Date.now() }): an existing key
\* keeps its place in the order, a new key goes to the end.
lruPut(c, k, t) ==
    IF lruHas(c, k)
    THEN [i \in 1..Len(c) |-> IF c[i].key = k THEN [key |-> k, lastAccessed |-> t]
                              ELSE c[i]]
    ELSE Append(c, [key |-> k, lastAccessed |-> t])

\* get(key): entry.lastAccessed = Date.now() when the key is present.
lruGet(c, k, t) == IF lruHas(c, k) THEN lruPut(c, k, t) ELSE c

\* An eviction that removes nothing.
evictNothing(c) == c

\* An eviction that removes the entry inserted first.
evictFirstInserted(c) == IF c = <<>> THEN c ELSE Tail(c)

\* evictLRU(): the first entry, in iteration order, whose lastAccessed is
\* below that of every entry before it and not above any entry after it.
evictLRU(c) ==
    IF c = <<>> THEN c
    ELSE LET i == CHOOSE j \in 1..Len(c) :
                      /\ c[j].lastAccessed = lruOldestTime(c)
                      /\ \A m \in 1..(j - 1) : c[m].lastAccessed # lruOldestTime(c)
         IN RemoveAt(c, i)

\* set(key, value)
lruSet(c, k, t) ==
    LET c1 == IF Len(c) >= MAX_CACHED_SERVERS /\ ~lruHas(c, k) THEN evictLRU(c) ELSE c
    IN lruPut(c1, k, t)

\* What a direct call leaves in the history.
lruCall(op, k, after) ==
    [op |-> op, key |-> k, found |-> lruHas(serverCache, k),
     sizeBefore |-> Len(serverCache),
     evicted |-> lruKeySet(serverCache) \ lruKeySet(after),
     oldestBefore |-> IF serverCache = <<>> THEN 0 ELSE lruOldestTime(serverCache),
     firstBefore |-> IF serverCache = <<>> THEN 0 ELSE serverCache[1].key]

\* serverCache.get(key)
LruGet(k) ==
    /\ serverCache' = lruGet(serverCache, k, now)
    /\ lruLog' = lruCall("get", k, lruGet(serverCache, k, now))
    /\ UNCHANGED <<pc, args, slot, cacheKey, cached, finalResult, response, ops,
                   occupancy, activeSlots, cache, consumed, now, acquiredAt, semLog,
                   http, rawAds, grantedAt>>

\* serverCache.set(key, server)
LruSet(k) ==
    /\ serverCache' = lruSet(serverCache, k, now)
    /\ lruLog' = lruCall("set", k, lruSet(serverCache, k, now))
    /\ UNCHANGED <<pc, args, slot, cacheKey, cached, finalResult, response, ops,
                   occupancy, activeSlots, cache, consumed, now, acquiredAt, semLog,
                   http, rawAds, grantedAt>>

NextLru ==
    \/ \E k \in LruKeys : LruGet(k)
    \/ \E k \in LruKeys : LruSet(k)
    \/ Tick

SpecLru == Init /\ [][NextLru]_vars

\* ------------------------------------------------------------- the fetch handler
\* index.ts: the worker's fetch handler and api-key-handler.ts: handleApiKeyRequest.
\* An Authorization header is the sequence of its parts; <<>> is an absent header.
Bearer == "Bearer "
Undefined == "undefined"
AuthHeaders ==
    {<<>>,
     <<Bearer, "wtyk_", "k1">>,     \* the key of user u1
     <<Bearer, "wtyk_", "k2">>,     \* the key of user u2, whose account is deleted
     <<Bearer, "wtyk_", "k9">>,     \* an unknown or expired key
     <<Bearer, "eyJ", "t1">>,       \* an OAuth access token
     <<"wtyk_", "k1">>,             \* the key of user u1 without the Bearer prefix
     <<Bearer, Bearer, "wtyk_", "k1">>,  \* the prefix twice
     <<"x", Bearer, "wtyk_", "k1">>,     \* the prefix not at the start
     <<Bearer>>}                         \* the prefix and nothing else
Pathnames == {"/mcp", "/sse", "/authorize", "/callback", "/token", "/register"}
\* The endpoints of the OAuth flow.
OAuthEndpoints == {"/authorize", "/callback", "/token", "/register"}
Methods == {"initialize", "ping", "tools/list", "tools/call", "resources/list"}
JsonRpcVersions == {"2.0", "1.0"}

\* authHeader.replace("Bearer ", ""): the first occurrence is removed.
replaceBearer(h) ==
    IF \E i \in 1..Len(h) : h[i] = Bearer
    THEN LET i == CHOOSE k \in 1..Len(h) :
                      h[k] = Bearer /\ \A j \in 1..(k - 1) : h[j] # Bearer
         IN SubSeq(h, 1, i - 1) \o SubSeq(h, i + 1, Len(h))
    ELSE h

\* token.startsWith(prefix)
startsWith(token, prefix) == Len(token) >= 1 /\ token[1] = prefix

\* A detection that does not look at the path.
isApiKeyRequestAnyPath(pathname, authHeader) ==
    IF authHeader = <<>> THEN FALSE
    ELSE startsWith(replaceBearer(authHeader), "wtyk_")

\* function isApiKeyRequest(pathname, authHeader)
isApiKeyRequest(pathname, authHeader) ==
    IF pathname # "/mcp" THEN FALSE
    ELSE IF authHeader = <<>> THEN FALSE
    ELSE startsWith(replaceBearer(authHeader), "wtyk_")

\* validateApiKey(apiKey, env): the user the key belongs to, or null.
validateApiKey(apiKey) ==
    IF apiKey = <<"wtyk_", "k1">> THEN "u1"
    ELSE IF apiKey = <<"wtyk_", "k2">> THEN "u2"
    ELSE NoUser

\* getUserById(env.TOKEN_DB, userId): null when not found or deleted.
getUserById(userId) == userId = "u1"

\* function jsonError(message, status)
jsonError(message, status) ==
    [status |-> status, servedBy |-> "jsonError", text |-> message]

\* function jsonRpcResponse(id, result, error): always HTTP 200.
jsonRpcResponse(handler, text) ==
    [status |-> 200, servedBy |-> handler, text |-> text]

\* async function handleHTTPTransport(server, request, env, userId, userEmail)
handleHTTPTransport(jsonrpc, method) ==
    IF jsonrpc # "2.0"
    THEN jsonRpcResponse("handleHTTPTransport", "Invalid Request: jsonrpc must be '2.0'")
    ELSE IF method = "initialize" THEN jsonRpcResponse("handleInitialize", "result")
    ELSE IF method = "ping" THEN jsonRpcResponse("handlePing", "result")
    ELSE IF method = "tools/list" THEN jsonRpcResponse("handleToolsList", "result")
    ELSE IF method = "tools/call" THEN jsonRpcResponse("handleToolsCall", "result")
    ELSE jsonRpcResponse("handleHTTPTransport", "Method not found")

\* What handleApiKeyRequest answered, and the user whose MCP server it asked
\* getOrCreateServer for (NoUser when it did not).
reply(res, userId) ==
    [status |-> res.status, servedBy |-> res.servedBy, text |-> res.text,
     server |-> userId]

\* getOrCreateServer(env, userId, email): serverCache.get(userId), and on a
\* miss serverCache.set(userId, server) with the server just built.
getOrCreateServer(c, userId, t) ==
    IF lruHas(c, userId) THEN lruGet(c, userId, t) ELSE lruSet(c, userId, t)

\* The transport the request is handed to.
transport(jsonrpc, method, pathname) ==
    IF pathname = "/sse"
    THEN [status |-> 200, servedBy |-> "handleSSETransport", text |-> "stream"]
    ELSE IF pathname = "/mcp" THEN handleHTTPTransport(jsonrpc, method)
    ELSE jsonError("Invalid endpoint. Use /sse or /mcp", 400)

\* A handler that does not look the user up.
handleApiKeyRequestUserUnchecked(authHeader, jsonrpc, method, pathname) ==
    LET apiKey == replaceBearer(authHeader)
        userId == validateApiKey(apiKey)
    IN IF apiKey = <<>> THEN reply(jsonError("Missing Authorization header", 401), NoUser)
       ELSE IF userId = NoUser
       THEN reply(jsonError("Invalid or expired API key", 401), NoUser)
       ELSE reply(transport(jsonrpc, method, pathname), userId)

\* export async function handleApiKeyRequest(request, env, ctx, pathname)
handleApiKeyRequest(authHeader, jsonrpc, method, pathname) ==
    LET apiKey == replaceBearer(authHeader)
        userId == validateApiKey(apiKey)
    IN IF apiKey = <<>> THEN reply(jsonError("Missing Authorization header", 401), NoUser)
       ELSE IF userId = NoUser
       THEN reply(jsonError("Invalid or expired API key", 401), NoUser)
       ELSE IF ~getUserById(userId)
       THEN reply(jsonError("User not found or account deleted", 404), NoUser)
       ELSE reply(transport(jsonrpc, method, pathname), userId)

\* export default { async fetch(request, env, ctx) }: the API-key branch calls
\* handleApiKeyRequest(request, env, ctx), so its fourth parameter is undefined.
fetch(pathname, authHeader, jsonrpc, method) ==
    IF isApiKeyRequest(pathname, authHeader)
    THEN handleApiKeyRequest(authHeader, jsonrpc, method, Undefined)
    ELSE [status |-> 0, servedBy |-> "oauthProvider", text |-> "none", server |-> NoUser]

\* The request, its response and the state of the server cache after it.
Served(pathname, authHeader, jsonrpc, method, res) ==
    /\ http' = [pathname |-> pathname, authHeader |-> authHeader,
                jsonrpc |-> jsonrpc, method |-> method,
                status |-> res.status, servedBy |-> res.servedBy, text |-> res.text,
                server |-> res.server]
    /\ serverCache' = IF res.server = NoUser THEN serverCache
                      ELSE getOrCreateServer(serverCache, res.server, now)
    /\ UNCHANGED <<pc, args, slot, cacheKey, cached, finalResult, response, ops,
                   occupancy, activeSlots, cache, consumed, now, acquiredAt, semLog, rawAds,
                   lruLog, grantedAt>>

\* The worker serves one HTTP request.
Fetch ==
    \E pathname \in Pathnames, authHeader \in AuthHeaders,
       jsonrpc \in JsonRpcVersions, method \in Methods :
        Served(pathname, authHeader, jsonrpc, method,
               fetch(pathname, authHeader, jsonrpc, method))

\* handleApiKeyRequest is called with the request and its pathname.
HandleApiKeyRequest ==
    \E pathname \in Pathnames, authHeader \in AuthHeaders,
       jsonrpc \in JsonRpcVersions, method \in Methods :
        Served(pathname, authHeader, jsonrpc, method,
               handleApiKeyRequest(authHeader, jsonrpc, method, pathname))

NextApiKey == HandleApiKeyRequest
SpecApiKey == Init /\ [][NextApiKey]_vars

NextFetch == Fetch
SpecFetch == Init /\ [][NextFetch]_vars

Next == Step(AdmissionScenario)
Spec == Init /\ [][Next]_vars

NextCache == Step(CacheScenario)
SpecCache == Init /\ [][NextCache]_vars

NextEntry == Step(EntryScenario)
SpecEntry == InitKv /\ [][NextEntry]_vars

NextParity == Step(ParityScenario)
SpecParity == InitKv /\ [][NextParity]_vars

NextExit == Step(ExitScenario)
SpecExit == Init /\ [][NextExit]_vars

NextHolder ==
    \/ Step(HolderScenario)
    \/ Tick
    \/ CleanupStale
SpecHolder == Init /\ [][NextHolder]_vars

NextKv == Step(KvScenario)
SpecKv == InitKv /\ [][NextKv]_vars

TypeOK ==
    /\ occupancy \in 0..MaxSlots
    /\ activeSlots \subseteq Users

\* ------------------------------------------------------------- claims
Lookups == {"lookup:hit", "lookup:miss", "lookup:unavailable"}
Acquires == {"acquire:granted", "acquire:denied"}
Granted(r) == Has(r, "acquire:granted")
Denied(r) == Has(r, "acquire:denied")
CalledAcquire(r) == Granted(r) \/ Denied(r)
Invoked(r) == Executing(r) \/ Has(r, "invoke:ok") \/ Has(r, "invoke:failed")
Wrote(r) == Has(r, "store:ok") \/ Has(r, "store:failed")
Returned(r) == pc[r] = "done"
Holding(r) == Granted(r) /\ ~Has(r, "release")
Min(a, b) == IF a < b THEN a ELSE b

\* C1: at every instant the number of requests executing runActorSync is at
\* most the semaphore capacity.
C1_ExecutingWithinCapacity ==
    Cardinality({r \in Reqs : Executing(r)}) <= MaxSlots

\* C2: a request whose acquireSlot returned acquired = false never invokes
\* runActorSync and returns an error to the caller.
C2_DeniedNeverInvokes ==
    \A r \in Reqs :
        Denied(r) => /\ ~Invoked(r)
                     /\ (Returned(r) => response[r].isError)

\* C3: the number of outstanding granted slots never exceeds maxSlots; with
\* no release so far, exactly min(acquires, maxSlots) acquires were granted
\* and the others denied; every denied result reports currentSlots = maxSlots.
C3_CapacityInvariant ==
    /\ Cardinality({r \in Reqs : Holding(r)}) <= MaxSlots
    /\ occupancy <= MaxSlots
    /\ \A r \in Reqs :
          Denied(r) => /\ ~slot[r].acquired
                       /\ slot[r].currentSlots = MaxSlots
                       /\ slot[r].maxSlots = MaxSlots
    /\ (\A r \in Reqs : ~Has(r, "release")) =>
          /\ Cardinality({r \in Reqs : Granted(r)})
                = Min(Cardinality({r \in Reqs : CalledAcquire(r)}), MaxSlots)
          /\ Cardinality({r \in Reqs : Denied(r)})
                = Cardinality({r \in Reqs : CalledAcquire(r)})
                    - Cardinality({r \in Reqs : Granted(r)})

\* C3 witness: more acquires than slots, none released: the surplus is denied.
C3_Witness ==
    /\ \A r \in Reqs : ~Has(r, "release")
    /\ Cardinality({r \in Reqs : Granted(r)}) = MaxSlots
    /\ \E r \in Reqs : Denied(r) /\ slot[r].currentSlots = MaxSlots

\* C4: the cache lookup precedes any Acquire, and a request whose lookup hit
\* never calls Acquire or Release, returns the cached payload, and none of
\* its steps changes the semaphore.
C4_HitState ==
    \A r \in Reqs :
        /\ CalledAcquire(r) => ops[r][1] \in Lookups
        /\ Has(r, "lookup:hit") =>
              /\ ~CalledAcquire(r) /\ ~Has(r, "release") /\ slot[r].isNull
              /\ (response[r].returned /\ ~response[r].isError
                    => response[r].payload = cached[r] /\ cached[r] # NoPayload)

C4_HitStep ==
    \A r \in Reqs :
        (pc'[r] # pc[r] /\ (Has(r, "lookup:hit") \/ pc'[r] = "hit"))
            => UNCHANGED <<occupancy, activeSlots>>

C4_CacheBypassesAdmission == [](C4_HitState) /\ [][C4_HitStep]_vars

\* C4 witness: a request that hit the cache has returned the cached payload
\* while another request holds a slot.
C4_Witness ==
    \E r, q \in Reqs :
        /\ Returned(r) /\ Has(r, "lookup:hit") /\ ~response[r].isError
        /\ Holding(q) /\ occupancy > 0

\* C5: every request whose Acquire was granted has called Release exactly
\* once for its holder when it returns, on every exit path.
C5_ReleaseOnEveryExit ==
    \A r \in Reqs :
        /\ (Returned(r) /\ Granted(r)) => Count(r, "release") = 1
        /\ Has(r, "release") => ops[r][Len(ops[r])] = "release"

\* C5 witness: a holder returned after an unexpected error in the AI
\* synthesis or sanitization step, and its slot is free again.
C5_Witness ==
    \E r \in Reqs :
        /\ Returned(r) /\ Granted(r) /\ Has(r, "post:failed") /\ Has(r, "release")
        /\ response[r].isError /\ occupancy = 0

\* C6: when the Actor fails or times out in a request that holds a slot, the
\* slot is released, the request writes nothing to the cache and the caller
\* gets an error result.
C6_FailureReleasesAndSkipsCache ==
    \A r \in Reqs :
        (Has(r, "invoke:failed") /\ Granted(r)) =>
            /\ ~Wrote(r)
            /\ pc[r] \in {"finally", "done"}
            /\ response[r].returned /\ response[r].isError
            /\ response[r].text \in {"Actor run failed", "Actor run timed out"}
            /\ (Returned(r) => Has(r, "release"))

\* C6 witness: a holder whose Actor run timed out has returned.
C6_Witness ==
    \E r \in Reqs :
        /\ Returned(r) /\ Granted(r) /\ Has(r, "invoke:failed")
        /\ response[r].text = "Actor run timed out"

\* C7: the error returned after a denied Acquire carries the occupancy, the
\* capacity and the advisory wait time of the admission result.
C7_DeniedMessage ==
    \A r \in Reqs :
        (Denied(r) /\ pc[r] \in {"finally", "done"}) => response[r] = LimitReached(slot[r])

\* C8: a cache hit served to a tool is a payload the same tool stored for the
\* same parameters.
C8_HitFromSameTool ==
    \A r \in Reqs :
        Has(r, "lookup:hit") =>
            /\ cached[r].tool = args[r].tool
            /\ cached[r].url = args[r].url
            /\ cached[r].resultsLimit
                  = actorInput(args[r].tool, args[r].url, args[r].limit).resultsLimit

\* C9: a cache lookup that fails with a backend error does not abort the
\* request: nothing is returned for that reason and the next operation of
\* the request is Acquire, as on a miss.
C9_LookupFailureIsMiss ==
    \A r \in Reqs :
        Has(r, "lookup:unavailable") =>
            /\ cached[r] = NoPayload
            /\ IF Len(ops[r]) = 1
               THEN pc[r] = "acquire" /\ ~response[r].returned
               ELSE ops[r][2] \in Acquires

\* C9 witness: after an unreachable cache the request was granted a slot and
\* returned a fresh result.
C9_Witness ==
    \E r \in Reqs :
        /\ Has(r, "lookup:unavailable") /\ Granted(r)
        /\ Returned(r) /\ ~response[r].isError

\* C10: a failed cache write is not surfaced: the caller gets the fresh
\* result as a success unless the ledger call after it threw, and the slot
\* is released.
C10_StoreFailureIsSilent ==
    \A r \in Reqs :
        Has(r, "store:failed") =>
            /\ response[r].returned
            /\ (Has(r, "ledger:fresh") => response[r] = Success(finalResult[r]))
            /\ (response[r].isError => Has(r, "ledger:failed"))
            /\ (Returned(r) /\ Granted(r) => Has(r, "release"))

\* C10 witness: a holder whose cache write failed returned its fresh result.
C10_Witness ==
    \E r \in Reqs :
        /\ Returned(r) /\ Granted(r) /\ Has(r, "store:failed")
        /\ response[r] = Success(finalResult[r]) /\ Has(r, "release")
        /\ cacheKey[r] \notin DOMAIN cache

\* C11: every payload returned to a caller, by any tool in either auth path,
\* fresh or served from the cache, has passed through sanitizeOutput and
\* redactPII.
C11_ReturnedPayloadSecure ==
    \A r \in Reqs :
        (response[r].returned /\ ~response[r].isError) => response[r].payload.secure

\* C12: a Release for a holder without a registered slot (a second Release,
\* or a holder never granted) leaves occupancy and the registry unchanged and
\* does not throw; occupancy never goes below zero; a holder never granted
\* has no slot.
C12_ExtraReleaseStep ==
    \A h \in Users :
        (ReleaseSlot(h) /\ h \notin activeSlots) =>
            /\ occupancy' = occupancy
            /\ activeSlots' = activeSlots
            /\ ~semLog'.last.threw

C12_ReleaseState ==
    /\ occupancy >= 0
    /\ \A h \in Users : h \notin semLog.granted => h \notin activeSlots
    /\ semLog.last.op = "release" => ~semLog.last.threw

C12_ReleaseIdempotent == [](C12_ReleaseState) /\ [][C12_ExtraReleaseStep]_vars

\* C12 witness: a holder that was granted and never reclaimed has called
\* Release a second time while another holder has the slot: occupancy is the
\* same as before the call.
C12_Witness ==
    /\ semLog.last.op = "release" /\ ~semLog.last.found
    /\ semLog.last.holder \in semLog.granted \ semLog.reclaimed
    /\ occupancy = semLog.last.before /\ occupancy > 0

\* C13: an Acquire at occupancy = capacity returns acquired = false and
\* leaves occupancy, the slot registry and the slot timestamps as they were.
C13_DeniedStep ==
    \A h \in Users :
        (AcquireSlot(h) /\ occupancy = MaxSlots) =>
            /\ ~acquireSlot(occupancy).acquired
            /\ ~semLog'.last.acquired
            /\ UNCHANGED <<occupancy, activeSlots, acquiredAt>>

C13_FastFailFrame == [][C13_DeniedStep]_vars

\* C13 witness: the last call was an Acquire at full occupancy; it was denied
\* and occupancy is still the capacity.
C13_Witness ==
    /\ semLog.last.op = "acquire" /\ ~semLog.last.acquired
    /\ semLog.last.before = MaxSlots /\ occupancy = MaxSlots
    /\ semLog.last.holder \notin activeSlots

\* C14: a slot older than the staleness threshold whose holder never calls
\* Release is eventually force-released by cleanupStale; the sweep removes
\* exactly the stale slots, decrements occupancy by their number, and leaves
\* occupancy below capacity so that the next Acquire is granted.
IsStale(h) ==
    h \in activeSlots /\ \E i \in 1..Len(acquiredAt[h]) : now - acquiredAt[h][i] > StaleAge

StaleCount(h) ==
    Cardinality({i \in 1..Len(acquiredAt[h]) : now - acquiredAt[h][i] > StaleAge})

RECURSIVE SumOver(_, _)
SumOver(f, S) ==
    IF S = {} THEN 0
    ELSE LET x == CHOOSE y \in S : TRUE IN f[x] + SumOver(f, S \ {x})

\* The number of registered slots.
SlotCount == SumOver([h \in Users |-> Len(acquiredAt[h])], Users)

C14_StaleLeadsToReclaim ==
    \A h \in Users :
        (IsStale(h) /\ h \notin semLog.released)
            ~> (h \in semLog.reclaimed \/ h \in semLog.released)

C14_SweepStep ==
    CleanupStale =>
        /\ \E h \in activeSlots : IsStale(h)
        /\ \A h \in Users :
              /\ Len(acquiredAt'[h]) = Len(acquiredAt[h]) - StaleCount(h)
              /\ \A i \in 1..Len(acquiredAt'[h]) : now - acquiredAt'[h][i] <= StaleAge
              /\ h \in activeSlots' <=> acquiredAt'[h] # <<>>
        /\ occupancy' = occupancy - SumOver([h \in Users |-> StaleCount(h)], Users)
        /\ occupancy' < MaxSlots
        /\ acquireSlot(occupancy').acquired

C15_State ==
    /\ occupancy >= 0
    /\ occupancy = SlotCount
    /\ activeSlots = {h \in Users : acquiredAt[h] # <<>>}

C15_Step ==
    /\ occupancy' < occupancy =>
          /\ activeSlots' \subseteq activeSlots
          /\ \A h \in Users : Len(acquiredAt'[h]) <= Len(acquiredAt[h])
    /\ \A h \in Users :
          (ReleaseSlot(h) /\ h \in semLog.reclaimed /\ h \notin activeSlots)
              => UNCHANGED <<occupancy, activeSlots>>
    /\ CleanupStale => StaleSlots \subseteq activeSlots

C15_NoDoubleDecrement == [](C15_State) /\ [][C15_Step]_vars

\* C15 witness: a holder whose slot the sweep had reclaimed called Release
\* late, while another holder had a slot: occupancy is what it was before
\* the call.
C15_Witness ==
    /\ semLog.last.op = "release" /\ ~semLog.last.found
    /\ semLog.last.holder \in semLog.reclaimed
    /\ semLog.last.before > 0 /\ occupancy = semLog.last.before
    /\ activeSlots # {}

C17_NoChargeOnFailure ==
    \A r \in Reqs :
        (Has(r, "invoke:failed") \/ Has(r, "post:failed") \/ Denied(r))
            => consumed[r] = 0

\* C18: in both auth paths a request of a user whose balance is below the
\* tool's cost performs no cache lookup, no Acquire, no Actor call and no
\* token consumption, and returns the insufficient-tokens error.
C18_InsufficientBalanceStops ==
    \A r \in Reqs :
        (Started(r) /\ ~args[r].sufficient) =>
            /\ ops[r] = <<>>
            /\ consumed[r] = 0
            /\ response[r].returned /\ response[r].isError
            /\ response[r].text = "Insufficient tokens"

\* The pattern as the claim writes it, ^https://(www.)?facebook.com/.+$ : its
\* dots match any character.
ClaimedUrlPattern(url) ==
    /\ url.scheme = "https"
    /\ url.www \in {"", "www.", "wwwx"}
    /\ url.host \in {"facebook.com", "facebookxcom"}
    /\ Len(url.path) >= 2 /\ url.path[1] = "/"

\* C19: a request of an identified user whose facebook_page_url does not
\* match the pattern is rejected with an error result before any cache
\* lookup, Acquire, Actor call or token consumption.
C19_InvalidUrlRejectedFirst ==
    \A r \in Reqs :
        (Started(r) /\ args[r].userId # NoUser /\ ~ClaimedUrlPattern(args[r].url)) =>
            /\ ops[r] = <<>>
            /\ consumed[r] = 0
            /\ slot[r].isNull /\ cacheKey[r] = NoKey
            /\ pc[r] \in {"finally", "done"}
            /\ response[r].returned /\ response[r].isError
            /\ response[r].text = "Invalid Facebook Page URL"

\* C19 witness: an API-key request for a URL with an empty page path has
\* returned the error without touching cache, semaphore or ledger.
C19_Witness ==
    \E r \in Reqs :
        /\ Returned(r) /\ args[r].path = "apikey"
        /\ args[r].url = [ValidUrl EXCEPT !.path = <<"/">>]
        /\ response[r] = ErrorResult("Invalid Facebook Page URL")
        /\ ops[r] = <<>> /\ consumed[r] = 0 /\ cache = EmptyCache /\ occupancy = 0

\* C20: a request to /mcp that carries a valid wtyk_ key of an existing,
\* non-deleted user is served by the Streamable HTTP transport: initialize,
\* ping, tools/list and tools/call reach their JSON-RPC handlers.
C20_ApiKeyRequestServed ==
    (/\ http.pathname = "/mcp"
     /\ http.authHeader = <<Bearer, "wtyk_", "k1">>
     /\ http.jsonrpc = "2.0") =>
        /\ http.status = 200
        /\ (http.method = "initialize" => http.servedBy = "handleInitialize")
        /\ (http.method = "ping" => http.servedBy = "handlePing")
        /\ (http.method = "tools/list" => http.servedBy = "handleToolsList")
        /\ (http.method = "tools/call" => http.servedBy = "handleToolsCall")

\* C21: fetch routes a request to the API-key handler exactly when the path
\* is /mcp and the Authorization header, with "Bearer " removed, starts with
\* wtyk_; every other request, in particular every request to /authorize,
\* /callback, /token or /register whatever its headers, goes to the OAuth
\* provider.
RoutedToApiKey == http.servedBy \notin {"none", "oauthProvider"}
RoutedToOAuth == http.servedBy = "oauthProvider"

C21_Routing ==
    http.servedBy # "none" =>
        /\ RoutedToApiKey <=>
              (/\ http.pathname = "/mcp"
               /\ http.authHeader # <<>>
               /\ startsWith(replaceBearer(http.authHeader), "wtyk_"))
        /\ ~RoutedToApiKey => RoutedToOAuth
        /\ http.pathname \in OAuthEndpoints => RoutedToOAuth

\* C21 witness: a request to /token that carries a valid wtyk_ key went to
\* the OAuth provider.
C21_Witness ==
    /\ http.pathname = "/token"
    /\ http.authHeader = <<Bearer, "wtyk_", "k1">>
    /\ RoutedToOAuth

\* C22: every tool call that reached the cache lookup has, when it returns,
\* called the usage ledger about its outcome: as a cache hit after a hit, as
\* a fresh success after a successful Actor run, and as a fresh failure
\* after a failed one.
LedgerCalls == {"ledger:hit", "ledger:fresh", "ledger:failure", "ledger:failed"}
CalledLedger(r) == \E i \in 1..Len(ops[r]) : ops[r][i] \in LedgerCalls

C22_LedgerInformed ==
    \A r \in Reqs :
        (Returned(r) /\ Len(ops[r]) > 0 /\ ops[r][1] \in Lookups) => CalledLedger(r)

\* C23: for the same tool, parameters, cache and semaphore state the OAuth
\* handler and the API-key executor perform the same core operations and
\* store and return the same payload: what a request stores and returns
\* after a successful Actor run is what the handler of the other auth path
\* builds from the same items.
OtherPath(a) == [a EXCEPT !.path = IF @ = "oauth" THEN "apikey" ELSE "oauth"]

\* The content of a payload, without the record of the steps it went through.
Content(p) == [p EXCEPT !.secure = FALSE]

C23_DualAuthParity ==
    \A r \in Reqs :
        /\ (Started(r) /\ pc[r] # "lookup") => (ops[r] # <<>> /\ ops[r][1] \in Lookups)
        /\ Has(r, "store:ok") =>
              LET other == buildResult(OtherPath(args[r]), rawAds[r].ads, rawAds[r].body)
              IN /\ Content(cache[cacheKey[r]]) = Content(other)
                 /\ (Has(r, "ledger:fresh") => Content(response[r].payload) = Content(other))

\* C24: after any sequence of get and set operations on the MCP server
\* cache, the number of cached entries never exceeds maxSize, and no key is
\* cached twice.
C24_CacheSizeBounded ==
    /\ Len(serverCache) <= MAX_CACHED_SERVERS
    /\ Cardinality(lruKeySet(serverCache)) = Len(serverCache)

\* C24 witness: a set of a new key on a full cache left the cache full.
C24_Witness ==
    /\ lruLog.op = "set" /\ ~lruLog.found
    /\ lruLog.sizeBefore = MAX_CACHED_SERVERS
    /\ Len(serverCache) = MAX_CACHED_SERVERS
    /\ lruHas(serverCache, lruLog.key)

\* C29: when set inserts a new key into a full cache, exactly one entry is
\* evicted and it is an entry with the smallest last-accessed time, where
\* both get and set of a key count as an access to it; set on a key already
\* present evicts nothing, and neither does a get or a set on a cache that
\* is not full.
lruTimeOf(c, k) == c[CHOOSE i \in 1..Len(c) : c[i].key = k].lastAccessed

C29_SetStep ==
    \A k \in LruKeys :
        LruSet(k) =>
            LET evicted == lruKeySet(serverCache) \ lruKeySet(serverCache')
            IN /\ lruHas(serverCache', k) /\ lruTimeOf(serverCache', k) = now
               /\ lruKeySet(serverCache') \ lruKeySet(serverCache) \subseteq {k}
               /\ \A j \in lruKeySet(serverCache') \ {k} :
                     lruTimeOf(serverCache', j) = lruTimeOf(serverCache, j)
               /\ IF ~lruHas(serverCache, k) /\ Len(serverCache) >= MAX_CACHED_SERVERS
                  THEN /\ Cardinality(evicted) = 1
                       /\ \A e \in evicted :
                             lruTimeOf(serverCache, e) = lruOldestTime(serverCache)
                  ELSE evicted = {}

C29_GetStep ==
    \A k \in LruKeys :
        LruGet(k) =>
            /\ lruKeySet(serverCache') = lruKeySet(serverCache)
            /\ lruHas(serverCache, k) => lruTimeOf(serverCache', k) = now
            /\ \A j \in lruKeySet(serverCache) \ {k} :
                  lruTimeOf(serverCache', j) = lruTimeOf(serverCache, j)

C29_EvictsLeastRecentlyUsed == [][C29_SetStep /\ C29_GetStep]_vars

\* C29 witness: the key inserted first was read again later, and the set of
\* a new key on the full cache evicted another key, inserted after it.
C29_Witness ==
    /\ lruLog.op = "set" /\ ~lruLog.found
    /\ lruLog.sizeBefore = MAX_CACHED_SERVERS
    /\ Cardinality(lruLog.evicted) = 1
    /\ lruLog.firstBefore \in lruKeySet(serverCache) \ {lruLog.key}
    /\ serverCache[1].key = lruLog.firstBefore
    /\ serverCache[1].lastAccessed > lruLog.oldestBefore
    /\ \A e \in lruLog.evicted : ~lruHas(serverCache, e)

\* C25: a request calls Release only if its own Acquire returned acquired =
\* true, and then at most once: a request that hit the cache, failed
\* validation or the balance check, or was denied a slot never calls Release.
FailedEntry(r) ==
    response[r].text \in {"User ID not found", "Invalid Facebook Page URL",
                          "Insufficient tokens"}

C25_ReleaseOnlyAfterGrant ==
    \A r \in Reqs :
        /\ Has(r, "release") => (Granted(r) /\ slot[r].acquired /\ Count(r, "release") = 1)
        /\ (Has(r, "lookup:hit") \/ Denied(r) \/ FailedEntry(r)) => ~Has(r, "release")

\* C25 witness: a denied request has returned without a Release while a
\* holder of the same user still has its slot.
C25_Witness ==
    \E r, q \in Reqs :
        /\ Returned(r) /\ Denied(r) /\ ~Has(r, "release")
        /\ Holding(q) /\ args[q].userId = args[r].userId
        /\ occupancy = MaxSlots /\ args[r].userId \in activeSlots

\* C26: at every instant the semaphore's occupancy equals the number of
\* requests that have been granted a slot and have not yet released it, also
\* when one user has several requests in flight; once all requests have
\* returned, occupancy is 0.  Stated for the instants at which no request has
\* held its slot for longer than the staleness threshold.
NoneOverdue == \A r \in Reqs : Holding(r) => now - grantedAt[r] <= StaleAge

C26_OccupancyCountsHolders ==
    /\ NoneOverdue => occupancy = Cardinality({r \in Reqs : Holding(r)})
    /\ (\A r \in Reqs : Returned(r)) => occupancy = 0

\* C27: a cache entry is written only by a request whose own Actor run
\* completed successfully while it held a granted slot, at most once per
\* request, and never by a request that hit the cache, was denied a slot, or
\* whose Actor run failed.
C27_CacheWrittenByHolderOnly ==
    \A r \in Reqs :
        Wrote(r) =>
            /\ Granted(r) /\ ~Denied(r)
            /\ Has(r, "invoke:ok") /\ ~Has(r, "invoke:failed") /\ ~Has(r, "post:failed")
            /\ ~Has(r, "lookup:hit")
            /\ Count(r, "store:ok") + Count(r, "store:failed") = 1

\* C28: each tool request calls Acquire at most once and never waits or
\* retries inline after a denial: the single call decides, and the request
\* goes on from it at once, whether the slot was granted or not.
AcquireCalls(r) == Count(r, "acquire:granted") + Count(r, "acquire:denied")

C28_State ==
    \A r \in Reqs :
        /\ AcquireCalls(r) <= 1
        /\ CalledAcquire(r) => pc[r] \in {"invoke", "store", "finally", "done"}

C28_Step ==
    \A r \in Reqs :
        /\ Acquire(r) => (pc'[r] = "invoke" /\ AcquireCalls(r) = 0)
        /\ CalledAcquire(r) => pc'[r] # "acquire"

C28_AcquireOnceNoWait == [](C28_State) /\ [][C28_Step]_vars

\* C28 witness: a denied request has returned after its single Acquire while
\* the request that holds the slot is still running.
C28_Witness ==
    \E r, q \in Reqs :
        /\ Returned(r) /\ Denied(r) /\ AcquireCalls(r) = 1
        /\ Holding(q) /\ Executing(q) /\ occupancy = MaxSlots

\* C30: handleApiKeyRequest creates or fetches no MCP server and executes no
\* tool unless the request carried an Authorization header, the API key
\* validated to a user id, and that user exists and is not deleted; the three
\* failures are answered, in that order of checking, with 401, 401 and 404.
Transports == {"handleSSETransport", "handleHTTPTransport", "handleInitialize",
               "handlePing", "handleToolsList", "handleToolsCall"}

C30_AuthBeforeServer ==
    http.servedBy # "none" =>
        LET apiKey == replaceBearer(http.authHeader)
            userId == validateApiKey(apiKey)
            authenticated == apiKey # <<>> /\ userId # NoUser /\ getUserById(userId)
        IN /\ (http.server # NoUser \/ http.servedBy \in Transports) => authenticated
           /\ http.server # NoUser => http.server = userId
           /\ \A i \in 1..Len(serverCache) : getUserById(serverCache[i].key)
           /\ apiKey = <<>> => http.status = 401
           /\ (apiKey # <<>> /\ userId = NoUser) => http.status = 401
           /\ (apiKey # <<>> /\ userId # NoUser /\ ~getUserById(userId))
                 => http.status = 404
           /\ authenticated => (http.server = userId /\ lruHas(serverCache, userId))

\* C30 witness: a tools/call with the key of a deleted user was answered 404
\* and no server was created, after a request of an existing user had been
\* given its server.
C30_Witness ==
    /\ http.authHeader = <<Bearer, "wtyk_", "k2">>
    /\ http.method = "tools/call" /\ http.pathname = "/mcp"
    /\ http.status = 404 /\ http.server = NoUser
    /\ lruKeySet(serverCache) = {"u1"}

====
